---- MODULE Spec2Model ----
(***************************************************************************)
(* Model of parse_jpeg_headers (src/main.py, lines 20-64): the walk over   *)
(* the marker segments of a JPEG byte stream.  The file is the sequence    *)
(* `stream`, the file object's position is `pos`, the dict `headers` is an *)
(* insertion-ordered sequence of key/value pairs, and `pc`/`exc` say       *)
(* whether the call is still running, has returned `headers`, or has       *)
(* raised an exception (and which).                                        *)
(***************************************************************************)
EXTENDS Integers, Sequences, FiniteSets, TLC

VARIABLES stream, pos, headers, pc, exc

vars == <<stream, pos, headers, pc, exc>>

(***************************************************************************)
(* Byte values the code compares against.                                  *)
(***************************************************************************)
MarkerPrefix == 255
SOI_Tag == 216
EOI_Tag == 217
APP0_Tag == 224
SOF0_Tag == 192
DHT_Tag == 196
SOS_Tag == 218

Signature == <<MarkerPrefix, SOI_Tag>>

(***************************************************************************)
(* Bounds of the input space.                                              *)
(***************************************************************************)
MaxSegs == 2

Min(a, b) == IF a < b THEN a ELSE b

(***************************************************************************)
(* f.read(n) on a binary file at offset p: up to n bytes, fewer at the end *)
(* of the file, all the remaining bytes for n = -1.  (n < -1 raises; the   *)
(* callers guard it.)                                                      *)
(***************************************************************************)
FileRead(s, p, n) ==
    IF n = -1 THEN SubSeq(s, p + 1, Len(s))
    ELSE SubSeq(s, p + 1, Min(p + n, Len(s)))

\* data[:k]
Slice(b, k) == SubSeq(b, 1, Min(k, Len(b)))

\* struct.unpack('>H', b)[0], defined for Len(b) = 2
UnpackH(b) == b[1] * 256 + b[2]

\* the same fields read least significant byte first ('<BHH')
UnpackBHH_LittleEndian(b) == <<b[1], b[3] * 256 + b[2], b[5] * 256 + b[4]>>

\* struct.unpack('>BHH', b), defined for Len(b) = 5
UnpackBHH(b) == <<b[1], b[2] * 256 + b[3], b[4] * 256 + b[5]>>

(***************************************************************************)
(* String formatting: {x:02X} and {n} of the f-strings.                    *)
(***************************************************************************)
HexDigits == <<"0", "1", "2", "3", "4", "5", "6", "7",
               "8", "9", "A", "B", "C", "D", "E", "F">>

RECURSIVE HexStr(_)
HexStr(n) ==
    IF n < 16 THEN HexDigits[n + 1]
    ELSE HexStr(n \div 16) \o HexDigits[(n % 16) + 1]

\* format(n, 'X'): no zero padding
Format02X_NoPad(n) == HexStr(n)

\* format(n, '02X'): uppercase hex, zero-padded to at least two digits
Format02X(n) == IF n < 16 THEN "0" \o HexStr(n) ELSE HexStr(n)

RECURSIVE DecStr(_)
DecStr(n) ==
    IF n < 10 THEN HexDigits[n + 1]
    ELSE DecStr(n \div 10) \o HexDigits[(n % 10) + 1]

OtherLabel(t) == "Marker 0xFF" \o Format02X(t)

SegValue(t, length) == "0xFF" \o Format02X(t) \o ", length=" \o DecStr(length)

(***************************************************************************)
(* headers[k] = v on an insertion-ordered dict: a new key is appended, an  *)
(* existing key keeps its place and has its value replaced.                *)
(***************************************************************************)
HasKey(h, k) == \E i \in 1..Len(h) : h[i].key = k

DictSet(h, k, v) ==
    IF HasKey(h, k)
    THEN LET i == CHOOSE j \in 1..Len(h) : h[j].key = k
         IN  [h EXCEPT ![i] = [key |-> k, val |-> v]]
    ELSE Append(h, [key |-> k, val |-> v])

DictGet(h, k) == h[CHOOSE i \in 1..Len(h) : h[i].key = k].val

Keys(h) == [i \in 1..Len(h) |-> h[i].key]

(***************************************************************************)
(* The files parsed.  A segment is a marker, a big-endian length field and *)
(* a payload; the declared length need not match the payload that follows. *)
(***************************************************************************)
Segment(t, length, p) ==
    <<MarkerPrefix, t, length \div 256, length % 256>> \o p

\* a well-formed segment: the length field counts itself and the payload
Complete(t, p) == Segment(t, Len(p) + 2, p)

\* payload of a frame header: precision, height, width, then `extra`
FramePayload(prec, h, w, extra) ==
    <<prec, h \div 256, h % 256, w \div 256, w % 256>> \o extra

KnownTags == {APP0_Tag, SOF0_Tag, DHT_Tag, SOS_Tag}
OtherTags == {SOI_Tag, 0, 10, 208, MarkerPrefix}

Dims == {<<1, 65535>>, <<258, 772>>, <<65535, 1>>}

Segments ==
    \* complete segments of every tag, empty payload
    {Complete(t, <<>>) : t \in (KnownTags \ {SOF0_Tag}) \cup OtherTags}
    \* complete segments with a payload
    \cup {Complete(t, <<1>>) : t \in {APP0_Tag, 208}}
    \* complete frame headers
    \cup {Complete(SOF0_Tag, FramePayload(8, d[1], d[2], <<>>)) : d \in Dims}
    \cup {Complete(SOF0_Tag, FramePayload(8, 258, 772, <<3>>))}
    \* a frame header whose payload is complete but shorter than 5 bytes
    \cup {Complete(SOF0_Tag, <<8, 0>>)}
    \* length fields 0 and 1
    \cup {Segment(t, n, <<>>) : t \in {APP0_Tag, SOF0_Tag}, n \in {0, 1}}
    \* payloads shorter than declared
    \cup {Segment(APP0_Tag, 5, <<170>>), Segment(SOF0_Tag, 8, <<8, 0, 1>>)}

RECURSIVE Bodies(_)
Bodies(n) ==
    IF n = 0 THEN {<<>>}
    ELSE LET B == Bodies(n - 1)
         IN  B \cup {b \o s : b \in B, s \in Segments}

Tails == {<<>>, <<MarkerPrefix>>, <<0>>, <<0, MarkerPrefix>>,
          <<MarkerPrefix, EOI_Tag>>,
          <<MarkerPrefix, APP0_Tag>>, <<MarkerPrefix, APP0_Tag, 0>>,
          <<MarkerPrefix, EOI_Tag>> \o Complete(APP0_Tag, <<>>)}

RECURSIVE SeqsUpTo(_, _)
SeqsUpTo(S, n) ==
    IF n = 0 THEN {<<>>}
    ELSE LET B == SeqsUpTo(S, n - 1)
         IN  B \cup {Append(b, x) : b \in B, x \in S}

\* every start of at most two bytes over these values that is not the signature
BadHeads == SeqsUpTo({0, SOI_Tag, MarkerPrefix}, 2) \ {Signature}
BadRests == {<<>>, <<MarkerPrefix, EOI_Tag>>,
             Complete(APP0_Tag, <<>>) \o <<MarkerPrefix, EOI_Tag>>}

\* one frame header, its four dimension bytes ranging over FrameBytes
FrameBytes == {0, 1, 128, 255}
FrameStreams ==
    {Signature \o Complete(SOF0_Tag, <<prec, b1, b2, b3, b4>> \o extra)
               \o <<MarkerPrefix, EOI_Tag>> :
        prec \in {8, 12}, b1 \in FrameBytes, b2 \in FrameBytes,
        b3 \in FrameBytes, b4 \in FrameBytes, extra \in {<<>>, <<3, 1>>}}

Streams ==
    {Signature \o b \o t : b \in Bodies(MaxSegs), t \in Tails}
    \cup {h \o r : h \in BadHeads, r \in BadRests}
    \cup FrameStreams

(***************************************************************************)
(* State after line 22 (headers = {}) with the file just opened.           *)
(***************************************************************************)
Init ==
    /\ stream \in Streams
    /\ pos = 0
    /\ headers = <<>>
    /\ pc = "soi"
    /\ exc = "none"

Raise(e) ==
    /\ pc' = "raised"
    /\ exc' = e

Return ==
    /\ pc' = "returned"
    /\ exc' = exc

(***************************************************************************)
(* Lines 25-28: the signature check.                                       *)
(***************************************************************************)
soi == FileRead(stream, pos, 2)

\* a signature test that looks at the first byte only
IsSignature_FirstByteOnly(b) == IF b = <<>> THEN FALSE ELSE b[1] = MarkerPrefix

\* line 26, negated: soi == b'\xff\xd8'
IsSignature(b) == b = Signature

CheckSOI ==
    /\ pc = "soi"
    /\ pos' = pos + Len(soi)
    /\ IF ~IsSignature(soi)
       THEN /\ Raise("ValueError: Not a valid JPEG file")
            /\ headers' = headers
       ELSE /\ headers' = DictSet(headers, "SOI",
                              [value |-> "0xFFD8", description |-> "Start of Image"])
            /\ pc' = "loop"
            /\ exc' = exc
    /\ UNCHANGED stream

(***************************************************************************)
(* One pass of the loop, lines 31-62.  The reads of the pass, in order:    *)
(* the marker, the length field, the payload.                              *)
(***************************************************************************)
marker == FileRead(stream, pos, 2)
posAfterMarker == pos + Len(marker)
marker_type == marker[2]
lengthBytes == FileRead(stream, posAfterMarker, 2)
posAfterLength == posAfterMarker + Len(lengthBytes)
length == UnpackH(lengthBytes)
data == FileRead(stream, posAfterLength, length - 2)
posAfterData == posAfterLength + Len(data)

\* line 32: `not marker or marker[0] != 0xFF`
LoopBreaks == IF marker = <<>> THEN TRUE ELSE marker[1] # MarkerPrefix

\* the pass got past line 38: a marker other than EOI
AtSegment ==
    /\ pc = "loop"
    /\ ~LoopBreaks
    /\ Len(marker) = 2
    /\ marker_type # EOI_Tag

\* the pass got past line 40: length field and payload were read
SegmentRead ==
    /\ AtSegment
    /\ Len(lengthBytes) = 2
    /\ length - 2 >= -1

\* lines 31-33: nothing left, or the next byte is not 0xFF: leave the loop
\* and return headers (line 64)
LoopBreak ==
    /\ pc = "loop"
    /\ LoopBreaks
    /\ pos' = posAfterMarker
    /\ Return
    /\ UNCHANGED <<stream, headers>>

\* line 34: marker[1] on a one-byte marker
MarkerIndexError ==
    /\ pc = "loop"
    /\ ~LoopBreaks
    /\ Len(marker) < 2
    /\ pos' = posAfterMarker
    /\ Raise("IndexError")
    /\ UNCHANGED <<stream, headers>>

\* the EOI entry recorded without leaving the loop (no `break`)
ReadEOI_NoBreak ==
    /\ pc = "loop"
    /\ ~LoopBreaks
    /\ Len(marker) = 2
    /\ marker_type = EOI_Tag
    /\ pos' = posAfterMarker
    /\ headers' = DictSet(headers, "EOI",
                      [value |-> "0xFFD9", description |-> "End of Image"])
    /\ UNCHANGED <<stream, pc, exc>>

\* the EOI test made only after the length field was read and unpacked
ReadEOI_AfterLength ==
    /\ pc = "loop"
    /\ ~LoopBreaks
    /\ Len(marker) = 2
    /\ marker_type = EOI_Tag
    /\ pos' = posAfterLength
    /\ IF Len(lengthBytes) < 2
       THEN /\ Raise("struct.error")
            /\ headers' = headers
       ELSE /\ headers' = DictSet(headers, "EOI",
                              [value |-> "0xFFD9", description |-> "End of Image"])
            /\ Return
    /\ UNCHANGED stream

\* lines 35-38, then line 64
ReadEOI ==
    /\ pc = "loop"
    /\ ~LoopBreaks
    /\ Len(marker) = 2
    /\ marker_type = EOI_Tag
    /\ pos' = posAfterMarker
    /\ headers' = DictSet(headers, "EOI",
                      [value |-> "0xFFD9", description |-> "End of Image"])
    /\ Return
    /\ UNCHANGED stream

\* line 39: struct.unpack('>H', ...) on fewer than 2 bytes
LengthUnpackError ==
    /\ AtSegment
    /\ Len(lengthBytes) < 2
    /\ pos' = posAfterLength
    /\ Raise("struct.error")
    /\ UNCHANGED <<stream, headers>>

\* line 40: f.read(n) with n < -1
ReadSizeError ==
    /\ AtSegment
    /\ Len(lengthBytes) = 2
    /\ length - 2 < -1
    /\ pos' = posAfterLength
    /\ Raise("ValueError: read length must be non-negative or -1")
    /\ UNCHANGED <<stream, headers>>

\* the end of a pass that recorded an entry: back to line 31
NextPass(k, v) ==
    /\ pos' = posAfterData
    /\ headers' = DictSet(headers, k, v)
    /\ UNCHANGED <<stream, pc, exc>>

\* lines 43-46
SegAPP0 ==
    /\ SegmentRead
    /\ marker_type = APP0_Tag
    /\ NextPass("APP0", [value |-> SegValue(APP0_Tag, length),
                         description |-> "JFIF Application Segment",
                         data |-> data])

\* lines 47-52
SegSOF0 ==
    /\ SegmentRead
    /\ marker_type = SOF0_Tag
    /\ Len(Slice(data, 5)) = 5
    /\ LET u == UnpackBHH(Slice(data, 5))
       IN  NextPass("SOF0", [value |-> SegValue(SOF0_Tag, length),
                             description |-> "Start of Frame (Baseline DCT)",
                             precision |-> u[1],
                             height |-> u[2],
                             width |-> u[3]])

\* line 48: struct.unpack('>BHH', ...) on fewer than 5 bytes
FrameUnpackError ==
    /\ SegmentRead
    /\ marker_type = SOF0_Tag
    /\ Len(Slice(data, 5)) # 5
    /\ pos' = posAfterData
    /\ Raise("struct.error")
    /\ UNCHANGED <<stream, headers>>

\* lines 53-55
SegDHT ==
    /\ SegmentRead
    /\ marker_type = DHT_Tag
    /\ NextPass("DHT", [value |-> SegValue(DHT_Tag, length),
                        description |-> "Define Huffman Table"])

\* lines 56-58
SegSOS ==
    /\ SegmentRead
    /\ marker_type = SOS_Tag
    /\ NextPass("SOS", [value |-> SegValue(SOS_Tag, length),
                        description |-> "Start of Scan"])

\* lines 59-62
SegOther ==
    /\ SegmentRead
    /\ marker_type \notin {APP0_Tag, SOF0_Tag, DHT_Tag, SOS_Tag}
    /\ NextPass(OtherLabel(marker_type),
                [value |-> SegValue(marker_type, length),
                 description |-> "Unknown or other marker"])

\* the state: the open file and its position, the dict, and where the call is
TypeOK ==
    /\ stream \in Seq(0..255)
    /\ pos \in 0..Len(stream)
    /\ pc \in {"soi", "loop", "returned", "raised"}
    /\ exc \in {"none", "ValueError: Not a valid JPEG file", "IndexError",
               "struct.error",
               "ValueError: read length must be non-negative or -1"}
    /\ pc = "raised" <=> exc # "none"
    /\ \A i \in 1..Len(headers) :
          /\ DOMAIN headers[i] = {"key", "val"}
          /\ {"value", "description"} \subseteq DOMAIN headers[i].val
    /\ \A i, j \in 1..Len(headers) : headers[i].key = headers[j].key => i = j

Next ==
    \/ CheckSOI
    \/ LoopBreak
    \/ MarkerIndexError
    \/ ReadEOI
    \/ LengthUnpackError
    \/ ReadSizeError
    \/ SegAPP0
    \/ SegSOF0
    \/ FrameUnpackError
    \/ SegDHT
    \/ SegSOS
    \/ SegOther

Spec == Init /\ [][Next]_vars

(***************************************************************************)
(* What the stream holds at the cursor, read off the bytes themselves.     *)
(***************************************************************************)
Remaining == Len(stream) - pos

\* the next two bytes are 0xFF and a tag other than EOI
NonEOIMarkerAhead ==
    IF Remaining < 2 THEN FALSE
    ELSE stream[pos + 1] = 255 /\ stream[pos + 2] # 217

\* the length field after that marker is present; its value
LengthAhead == Remaining >= 4
Declared == 256 * stream[pos + 3] + stream[pos + 4]

(***************************************************************************)
(* C1.  A stream whose first two bytes are not 0xFF 0xD8 (the empty and    *)
(* the one-byte stream included) makes the parse raise 'Not a valid JPEG   *)
(* file': it never enters the loop, never returns headers, records no      *)
(* entry, and never reads past the first two bytes.                        *)
(***************************************************************************)
BadStart ==
    IF Len(stream) < 2 THEN TRUE
    ELSE stream[1] # 255 \/ stream[2] # 216

C1_InvalidSignature ==
    BadStart =>
        /\ pc \in {"soi", "raised"}
        /\ pc = "raised" => exc = "ValueError: Not a valid JPEG file"
        /\ headers = <<>>
        /\ pos <= 2
        /\ pc = "raised" => pos = Min(2, Len(stream))

C1_Witness ==
    /\ BadStart
    /\ pc = "raised"
    /\ Len(stream) > 2
    /\ stream[1] = 255

(***************************************************************************)
(* C2.  A non-EOI marker whose segment is cut short (the length field is   *)
(* incomplete, or fewer than declared_length - 2 payload bytes remain, or  *)
(* a 0xC0 segment declares fewer than 5 payload bytes) makes the pass      *)
(* fail: the parse raises and records nothing from the short segment.      *)
(* (The kind of the error is left open here.)                              *)
(***************************************************************************)
CutShort ==
    /\ pc = "loop"
    /\ NonEOIMarkerAhead
    /\ IF ~LengthAhead THEN TRUE
       ELSE /\ Declared >= 2
            /\ \/ Remaining < 2 + Declared
               \/ stream[pos + 2] = 192 /\ Declared - 2 < 5

C2_TruncatedFails ==
    [][CutShort => (pc' = "raised" /\ headers' = headers)]_vars

(***************************************************************************)
(* C3.  A non-EOI marker followed by a length field of value 0 or 1 makes  *)
(* the pass fail without consuming any byte after the length field and     *)
(* without recording an entry, for 0 and for 1 alike.                      *)
(***************************************************************************)
LengthTooSmall ==
    /\ pc = "loop"
    /\ NonEOIMarkerAhead
    /\ LengthAhead
    /\ Declared \in {0, 1}

C3_InvalidLengthFails ==
    [][LengthTooSmall =>
         (pc' = "raised" /\ pos' = pos + 4 /\ headers' = headers)]_vars

(***************************************************************************)
(* C4.  Every pass that records a segment appends exactly one entry after  *)
(* the entries already present and leaves those untouched, so that the     *)
(* result has one entry per segment walked, in file order, and two         *)
(* segments of the same tag give two entries.                              *)
(***************************************************************************)
C4_OneEntryPerSegment ==
    [][(pc = "loop" /\ pc' = "loop") =>
         /\ Len(headers') = Len(headers) + 1
         /\ SubSeq(headers', 1, Len(headers)) = headers]_vars

(***************************************************************************)
(* C5.  Once the signature check has succeeded, the first entry is SOI and *)
(* it is the only SOI entry; there is at most one EOI entry, it is the     *)
(* last entry and the parse has returned; and once EOI is recorded the     *)
(* entries never change again.                                             *)
(***************************************************************************)
SignatureAccepted == pc \in {"loop", "returned"} \/ (pc = "raised" /\ headers # <<>>)

KeyCount(h, k) == Cardinality({i \in 1..Len(h) : h[i].key = k})

C5_Shape ==
    SignatureAccepted =>
        /\ Len(headers) >= 1
        /\ headers[1].key = "SOI"
        /\ KeyCount(headers, "SOI") = 1
        /\ KeyCount(headers, "EOI") <= 1
        /\ \A i \in 1..Len(headers) :
              headers[i].key = "EOI" => (i = Len(headers) /\ pc = "returned")

C5_SOIFirstEOILast ==
    /\ [](pc # "soi" /\ exc # "ValueError: Not a valid JPEG file" => SignatureAccepted)
    /\ []C5_Shape
    /\ [][HasKey(headers, "EOI") => headers' = headers]_vars

\* returned with EOI after two segments of the same label
C5_Witness ==
    /\ pc = "returned"
    /\ stream = <<255, 216, 255, 224, 0, 3, 1, 255, 224, 0, 2, 255, 217>>
    /\ Keys(headers) = <<"SOI", "APP0", "EOI">>

(***************************************************************************)
(* C6.  A pass at a 0xC0 segment that declares, and has, at least 5        *)
(* payload bytes b0..b4 records the SOF0 entry with precision = b0,        *)
(* height = 256*b1 + b2 and width = 256*b3 + b4, whatever follows the      *)
(* fifth payload byte and whatever entries are already present.            *)
(***************************************************************************)
FrameAhead ==
    /\ pc = "loop"
    /\ NonEOIMarkerAhead
    /\ stream[pos + 2] = 192
    /\ Remaining >= 9
    /\ Declared >= 7

C6_FrameFields ==
    [][FrameAhead =>
         /\ pc' = "loop"
         /\ HasKey(headers', "SOF0")
         /\ LET r == DictGet(headers', "SOF0")
            IN  /\ r.precision = stream[pos + 5]
                /\ r.height = 256 * stream[pos + 6] + stream[pos + 7]
                /\ r.width = 256 * stream[pos + 8] + stream[pos + 9]]_vars

\* a frame header of 258 x 772 with a payload byte after the fifth, parsed
\* after an APP0 segment
C6_Witness ==
    /\ stream = <<255, 216, 255, 224, 0, 3, 1,
                  255, 192, 0, 8, 8, 1, 2, 3, 4, 3>>
    /\ pos = 17
    /\ Keys(headers) = <<"SOI", "APP0", "SOF0">>
    /\ DictGet(headers, "SOF0").precision = 8
    /\ DictGet(headers, "SOF0").height = 258
    /\ DictGet(headers, "SOF0").width = 772

(***************************************************************************)
(* C7.  The stream 0xFF 0xD8 0xFF 0xD9 is parsed without error into        *)
(* exactly the entries SOI, EOI, each holding only its value and its       *)
(* description, and nothing is read after the 0xD9 tag.                    *)
(***************************************************************************)
C7_MinimalFile ==
    stream = <<255, 216, 255, 217>> =>
        /\ pc # "raised"
        /\ pos <= 4
        /\ pc = "returned" =>
              /\ pos = 4
              /\ Keys(headers) = <<"SOI", "EOI">>
              /\ headers[1].val = [value |-> "0xFFD8", description |-> "Start of Image"]
              /\ headers[2].val = [value |-> "0xFFD9", description |-> "End of Image"]
        /\ pc = "loop" => pos = 2

C7_Witness ==
    /\ stream = <<255, 216, 255, 217>>
    /\ pc = "returned"
    /\ Len(headers) = 2

(***************************************************************************)
(* C8.  When the pass starts with no byte left, or with a next byte that   *)
(* is not 0xFF, or with exactly one byte left, the parse returns the       *)
(* entries recorded so far, without an EOI entry, and reports no error.    *)
(***************************************************************************)
AtLenientEnd ==
    /\ pc = "loop"
    /\ IF Remaining <= 1 THEN TRUE ELSE stream[pos + 1] # 255

C8_LenientEnd ==
    [][AtLenientEnd =>
         /\ pc' = "returned"
         /\ exc' = "none"
         /\ headers' = headers
         /\ ~HasKey(headers', "EOI")]_vars

(***************************************************************************)
(* C9.  A complete segment (declared length >= 2, all of it present) with  *)
(* a tag other than 0xD9, 0xE0, 0xC0, 0xC4, 0xDA is no error: the pass     *)
(* skips it whole, continues at the byte after its payload, and leaves an  *)
(* entry labelled 'Marker 0xFF' + two uppercase hex digits of the tag,     *)
(* holding a value and a description only.                                 *)
(***************************************************************************)
ExpectedLabel ==
    [t \in {0, 1, 10, 128, 208, 216, 255} |->
        CASE t = 0   -> "Marker 0xFF00"
          [] t = 1   -> "Marker 0xFF01"
          [] t = 10  -> "Marker 0xFF0A"
          [] t = 128 -> "Marker 0xFF80"
          [] t = 208 -> "Marker 0xFFD0"
          [] t = 216 -> "Marker 0xFFD8"
          [] t = 255 -> "Marker 0xFFFF"]

OtherAhead ==
    /\ pc = "loop"
    /\ NonEOIMarkerAhead
    /\ stream[pos + 2] \in DOMAIN ExpectedLabel
    /\ LengthAhead
    /\ Declared >= 2
    /\ Remaining >= 2 + Declared

C9_OtherMarkers ==
    [][OtherAhead =>
         /\ pc' = "loop"
         /\ exc' = "none"
         /\ pos' = pos + 2 + Declared
         /\ LET k == ExpectedLabel[stream[pos + 2]]
            IN  /\ HasKey(headers', k)
                /\ DOMAIN DictGet(headers', k) = {"value", "description"}
                /\ \A i \in 1..Len(headers) :
                      headers[i].key # k => headers'[i] = headers[i]
                /\ Len(headers') = IF HasKey(headers, k) THEN Len(headers)
                                   ELSE Len(headers) + 1]_vars

\* a restart tag with a payload, then tag 0x0A, both walked
C9_Witness ==
    /\ stream = <<255, 216, 255, 208, 0, 3, 1, 255, 10, 0, 2>>
    /\ pos = 11
    /\ Keys(headers) = <<"SOI", "Marker 0xFFD0", "Marker 0xFF0A">>

(***************************************************************************)
(* C10.  The position never decreases and never exceeds the length of the  *)
(* stream, and every pass after which the loop goes on advances it by the  *)
(* 2 marker bytes, the 2 length bytes and exactly declared_length - 2      *)
(* payload bytes.                                                          *)
(***************************************************************************)
C10_Progress ==
    [][/\ pos' >= pos
       /\ pos' <= Len(stream)
       /\ (pc = "loop" /\ pc' = "loop") => pos' = pos + 4 + (Declared - 2)]_vars
====
